---- MODULE Spec2Model ----
(***************************************************************************)
(* Record Store Facade of hssw24/klb (kbStorage over Firestore), the       *)
(* deterministic-key variant: entries are documents of the collection      *)
(* 'entries', keyed by makeEntryId(course, date, hour), and the catalog of  *)
(* courses, subjects and teachers is the one document 'meta/kb_meta'.      *)
(* The addEntry of the natural-key-query variant is modelled beside it.    *)
(*                                                                         *)
(* Strings that the code inspects character by character (course, date,    *)
(* hour, document ids) are sequences of one-character strings; strings it  *)
(* only stores (content, reasons) are plain strings.  A document is a      *)
(* function from field names to values; a field that is absent in the      *)
(* JavaScript object is absent from the function's domain.                 *)
(*                                                                         *)
(* Every async function is cut at its awaits: each backend round trip      *)
(* (get, update, delete, a transaction's gets and its commit) is one       *)
(* atomic step, and any other caller's steps may come between two of them. *)
(***************************************************************************)
EXTENDS Naturals, Sequences, FiniteSets, TLC

\* ------------------------------------------------------------------ bounds

\* Number of facade calls made in one behaviour.
MaxCalls == 3

\* ----------------------------------------------------------------- strings

WhiteSpace == {" ", "\t", "\n", "\r"}

SafeChars ==
  {"A","B","C","D","E","F","G","H","I","J","K","L","M","N","O","P","Q","R",
   "S","T","U","V","W","X","Y","Z",
   "a","b","c","d","e","f","g","h","i","j","k","l","m","n","o","p","q","r",
   "s","t","u","v","w","x","y","z",
   "0","1","2","3","4","5","6","7","8","9","_","-"}

RECURSIVE TrimLeft(_)
TrimLeft(s) ==
  IF s # <<>> /\ Head(s) \in WhiteSpace THEN TrimLeft(Tail(s)) ELSE s

RECURSIVE TrimRight(_)
TrimRight(s) ==
  IF s # <<>> /\ s[Len(s)] \in WhiteSpace
  THEN TrimRight(SubSeq(s, 1, Len(s) - 1))
  ELSE s

\* String.prototype.trim
Trim(s) == TrimRight(TrimLeft(s))

\* replace(/\s+/g, '_'): every maximal run of white space becomes one '_'
RECURSIVE CollapseSpace(_)
CollapseSpace(s) ==
  IF s = <<>> THEN <<>>
  ELSE IF Head(s) \in WhiteSpace
       THEN <<"_">> \o CollapseSpace(TrimLeft(s))
       ELSE <<Head(s)>> \o CollapseSpace(Tail(s))

IsSafeChar(c) == c \in SafeChars

\* replace(/[^A-Za-z0-9_\-]/g, ''): every other character is dropped
StripUnsafe(s) == SelectSeq(s, IsSafeChar)

\* safe = (s='') => String(s || '').trim().replace(...).replace(...)
safe(s) == StripUnsafe(CollapseSpace(Trim(s)))

\* entry.f, or '' when the field is absent (String(undefined || ''))
FieldOrEmpty(entry, f) == IF f \in DOMAIN entry THEN entry[f] ELSE <<>>

makeEntryId(entry) ==
  safe(FieldOrEmpty(entry, "course")) \o <<"_", "_">> \o
  safe(FieldOrEmpty(entry, "date")) \o <<"_", "_">> \o
  safe(FieldOrEmpty(entry, "hour"))

\* ---------------------------------------------------------------- documents

NoDoc == [f \in {} |-> 0]

\* The natural key of a document: its (course, date, hour) triple.
NaturalKey(doc) ==
  <<FieldOrEmpty(doc, "course"), FieldOrEmpty(doc, "date"),
    FieldOrEmpty(doc, "hour")>>

\* Object.assign({}, old, data), and what DocumentReference.update(data)
\* leaves in the document: data's fields win, the others are kept.
Merge(old, data) ==
  [f \in DOMAIN old \cup DOMAIN data |->
     IF f \in DOMAIN data THEN data[f] ELSE old[f]]

\* JavaScript truthiness of doc.locked (absent counts as false)
IsLocked(doc) == "locked" \in DOMAIN doc /\ doc.locked = TRUE

\* ------------------------------------------------------------------- inputs

Callers == {"c1", "c2"}

TheDate == <<"d">>
TheHour == <<"1">>

CourseA  == <<"A">>
CourseA2 == <<"A", " ">>
CourseB  == <<"B">>

Entry(c, t) == [course |-> c, date |-> TheDate, hour |-> TheHour, content |-> t]

\* The entries addEntry is called with: two with the same natural key, one
\* whose course differs from theirs by a trailing blank, one of another
\* course, and one that is stored locked.
AddInputs ==
  {Entry(CourseA, "t0"), Entry(CourseA, "t1"), Entry(CourseA2, "t0"),
   Entry(CourseB, "t0"), Merge(Entry(CourseB, "t1"), [locked |-> TRUE])}

\* The newFields updateEntry is called with: content only, course only,
\* complete entries, and a complete entry as a form holds it that was filled
\* from an unlocked entry.
UpdInputs ==
  {[content |-> "x"], [course |-> CourseB],
   Entry(CourseA, "x"), Entry(CourseB, "x"),
   Merge(Entry(CourseA, "y"), [locked |-> FALSE])}

\* Document ids that calls name: those of the entries added and those an
\* updateEntry computes from its newFields.
DocIds == {makeEntryId(e) : e \in AddInputs \cup UpdInputs}

\* oldId of updateEntry: '' (no id given) or a document id.
UpdIds == {<<>>} \cup DocIds

\* -------------------------------------------------------------------- state

VARIABLES
  store,   \* the 'entries' collection: document id -> document
  pc,      \* per caller: the await its call is suspended at
  arg,     \* per caller: the call's operation and arguments
  loc,     \* per caller: the call's local variables and transaction state
  res,     \* per caller: the value the call returned
  calls,   \* number of calls made so far
  addOk,   \* history: natural key -> number of addEntry calls that returned ok:true
  prev,    \* history: the call that returned last, when it was a successful
           \* toggleLockEntry: its id and the document before it; when it
           \* was an ensureDefaults that returned ok:true: the metadata
           \* stored at its return
  meta     \* the document 'meta/kb_meta': whether it exists, and its fields

vars == <<store, pc, arg, loc, res, calls, addOk, prev, meta>>

AddKeys == {NaturalKey(e) : e \in AddInputs}

NoArg == [op |-> "none", id |-> <<>>, data |-> NoDoc]
NoLoc == [reads |-> {}, stale |-> FALSE, old |-> NoDoc, cur |-> FALSE, out |-> "none"]
NoRes == NoDoc
NoPrev == [id |-> <<>>, doc |-> NoDoc]
NoMeta == [exists |-> FALSE, data |-> NoDoc]

\* The values the operations return.
Ok == [ok |-> TRUE]
OkId(id) == [ok |-> TRUE, id |-> id]
Failed(reason) == [ok |-> FALSE, reason |-> reason]

\* err.message of a failed backend round trip
BackendError == "backend error"
\* err.message of DocumentReference.update on a document that does not exist
NoDocumentError == "no document to update"

Init ==
  /\ store = NoDoc
  /\ pc = [p \in Callers |-> "idle"]
  /\ arg = [p \in Callers |-> NoArg]
  /\ loc = [p \in Callers |-> NoLoc]
  /\ res = [p \in Callers |-> NoRes]
  /\ calls = 0
  /\ addOk = [k \in AddKeys |-> 0]
  /\ prev = NoPrev
  /\ meta = NoMeta

\* ------------------------------------------------------------------ backend

\* The collection after set(id, doc).
SetDoc(st, id, doc) ==
  [i \in DOMAIN st \cup {id} |-> IF i = id THEN doc ELSE st[i]]

\* The collection after delete(id).
DeleteDoc(st, id) == [i \in DOMAIN st \ {id} |-> st[i]]

\* A committed write to the documents ids invalidates every other caller's
\* open transaction that has read one of them.
Invalidate(p, ids) ==
  [q \in Callers |->
     IF q # p /\ loc[q].reads \cap ids # {}
     THEN [loc[q] EXCEPT !.stale = TRUE]
     ELSE IF q = p THEN NoLoc ELSE loc[q]]

TxValidUnchecked(p) == TRUE

\* runTransaction commits only if no document the transaction read has been
\* written since (also when the update function wrote nothing: the documents
\* it read are verified with the commit); otherwise it runs the update
\* function again.
TxValid(p) == ~loc[p].stale

\* The call of p returns r.
Finish(p, r) ==
  /\ pc' = [pc EXCEPT ![p] = "done"]
  /\ res' = [res EXCEPT ![p] = r]

\* The call of p moves on to its next await.
Goto(p, label) ==
  /\ pc' = [pc EXCEPT ![p] = label]
  /\ UNCHANGED res

\* The caller takes the result; it may call again.
Return(p) ==
  /\ pc[p] = "done"
  /\ pc' = [pc EXCEPT ![p] = "idle"]
  /\ arg' = [arg EXCEPT ![p] = NoArg]
  /\ res' = [res EXCEPT ![p] = NoRes]
  /\ loc' = [loc EXCEPT ![p] = NoLoc]
  /\ prev' = IF arg[p].op = "tog" /\ res[p] = Ok
             THEN [id |-> arg[p].id, doc |-> loc[p].old]
             ELSE IF arg[p].op = "ensureDefaults" /\ res[p] = Ok
             THEN [id |-> <<>>, doc |-> [stored |-> meta]]
             ELSE NoPrev
  /\ UNCHANGED <<store, calls, addOk, meta>>

\* ----------------------------------------------------------------- addEntry

CallAdd(p, entry) ==
  /\ pc[p] = "idle"
  /\ calls < MaxCalls
  /\ calls' = calls + 1
  /\ arg' = [arg EXCEPT ![p] = [op |-> "add", id |-> makeEntryId(entry), data |-> entry]]
  /\ Goto(p, "add_get")
  /\ UNCHANGED <<store, loc, addOk, prev, meta>>

\* const snap = await tx.get(docRef); if (snap.exists) return duplicate
AddGet(p, fail) ==
  /\ pc[p] = "add_get"
  /\ UNCHANGED <<store, arg, calls, addOk, prev, meta>>
  /\ IF fail
     THEN /\ Finish(p, Failed(BackendError))
          /\ loc' = [loc EXCEPT ![p] = NoLoc]
     ELSE /\ Goto(p, "add_commit")
          /\ loc' = [loc EXCEPT ![p] =
                       [NoLoc EXCEPT !.reads = {arg[p].id},
                                     !.out = IF arg[p].id \in DOMAIN store
                                             THEN "duplicate" ELSE "create"]]

\* tx.set(docRef, entry); return { ok: true, id }, and the commit
AddCommit(p, fail) ==
  /\ pc[p] = "add_commit"
  /\ UNCHANGED <<arg, calls, prev, meta>>
  /\ IF fail
     THEN /\ Finish(p, Failed(BackendError))
          /\ loc' = [loc EXCEPT ![p] = NoLoc]
          /\ UNCHANGED <<store, addOk>>
     ELSE IF ~TxValid(p)
     THEN /\ Goto(p, "add_get")
          /\ loc' = [loc EXCEPT ![p] = NoLoc]
          /\ UNCHANGED <<store, addOk>>
     ELSE IF loc[p].out = "duplicate"
     THEN /\ Finish(p, Failed("duplicate"))
          /\ loc' = [loc EXCEPT ![p] = NoLoc]
          /\ UNCHANGED <<store, addOk>>
     ELSE /\ store' = SetDoc(store, arg[p].id, arg[p].data)
          /\ Finish(p, OkId(arg[p].id))
          /\ loc' = Invalidate(p, {arg[p].id})
          /\ addOk' = [addOk EXCEPT ![NaturalKey(arg[p].data)] = @ + 1]

\* -------------------------------------------------------------- updateEntry

\* if (!oldId) return { ok: false, reason: 'missing id' }
CallUpd(p, oldId, data) ==
  /\ pc[p] = "idle"
  /\ calls < MaxCalls
  /\ calls' = calls + 1
  /\ arg' = [arg EXCEPT ![p] = [op |-> "upd", id |-> oldId, data |-> data]]
  /\ IF oldId = <<>>
     THEN Finish(p, Failed("missing id"))
     ELSE Goto(p, "upd_read")
  /\ UNCHANGED <<store, loc, addOk, prev, meta>>

\* The branch updateEntry takes once the entry is read: the direct update
\* when the id made from newFields is the entry's id, else the rename.
UpdBranch(oldId, data) ==
  IF makeEntryId(data) = oldId THEN "upd_direct" ELSE "upd_tx_target"

UpdReadOutcomeNoLockCheck(st, oldId, data) ==
  IF oldId \notin DOMAIN st THEN "not found" ELSE UpdBranch(oldId, data)

\* What updateEntry does with the entry as first read: a failure reason, or
\* the branch it goes on with.
UpdReadOutcome(st, oldId, data) ==
  IF oldId \notin DOMAIN st THEN "not found"
  ELSE IF IsLocked(st[oldId]) THEN "locked"
  ELSE UpdBranch(oldId, data)

\* const oldSnap = await oldRef.get(), and the checks on it
UpdRead(p, fail) ==
  /\ pc[p] = "upd_read"
  /\ UNCHANGED <<store, arg, loc, calls, addOk, prev, meta>>
  /\ IF fail
     THEN Finish(p, Failed(BackendError))
     ELSE IF UpdReadOutcome(store, arg[p].id, arg[p].data) \in {"not found", "locked"}
     THEN Finish(p, Failed(UpdReadOutcome(store, arg[p].id, arg[p].data)))
     ELSE Goto(p, UpdReadOutcome(store, arg[p].id, arg[p].data))

\* await oldRef.update(data); return { ok: true }
UpdDirect(p, fail) ==
  /\ pc[p] = "upd_direct"
  /\ UNCHANGED <<arg, calls, addOk, prev, meta>>
  /\ IF fail
     THEN /\ Finish(p, Failed(BackendError))
          /\ UNCHANGED <<store, loc>>
     ELSE IF arg[p].id \notin DOMAIN store
     THEN /\ Finish(p, Failed(NoDocumentError))
          /\ UNCHANGED <<store, loc>>
     ELSE /\ store' = [store EXCEPT ![arg[p].id] = Merge(@, arg[p].data)]
          /\ Finish(p, Ok)
          /\ loc' = Invalidate(p, {arg[p].id})

\* const targetSnap = await tx.get(newRef)
UpdTxTarget(p, fail) ==
  /\ pc[p] = "upd_tx_target"
  /\ UNCHANGED <<store, arg, calls, addOk, prev, meta>>
  /\ IF fail
     THEN /\ Finish(p, Failed(BackendError))
          /\ loc' = [loc EXCEPT ![p] = NoLoc]
     ELSE IF makeEntryId(arg[p].data) \in DOMAIN store
     THEN /\ Goto(p, "upd_tx_commit")
          /\ loc' = [loc EXCEPT ![p] =
                       [NoLoc EXCEPT !.reads = {makeEntryId(arg[p].data)},
                                     !.out = "duplicate_target"]]
     ELSE /\ Goto(p, "upd_tx_old")
          /\ loc' = [loc EXCEPT ![p] =
                       [NoLoc EXCEPT !.reads = {makeEntryId(arg[p].data)}]]

UpdTxOutcomeNoRecheck(st, oldId) == "rename"

\* What the update function does with the old entry as re-read in the
\* transaction.
UpdTxOutcome(st, oldId) ==
  IF oldId \notin DOMAIN st THEN "not_found_during_tx"
  ELSE IF IsLocked(st[oldId]) THEN "locked"
  ELSE "rename"

\* const checkOld = await tx.get(oldRef), and the checks on it
UpdTxOld(p, fail) ==
  /\ pc[p] = "upd_tx_old"
  /\ UNCHANGED <<store, arg, calls, addOk, prev, meta>>
  /\ IF fail
     THEN /\ Finish(p, Failed(BackendError))
          /\ loc' = [loc EXCEPT ![p] = NoLoc]
     ELSE /\ Goto(p, "upd_tx_commit")
          /\ loc' = [loc EXCEPT ![p] =
                       [@ EXCEPT !.reads = @ \cup {arg[p].id},
                                 !.out = UpdTxOutcome(store, arg[p].id),
                                 !.old = IF arg[p].id \in DOMAIN store
                                         THEN store[arg[p].id] ELSE NoDoc]]

RenameKeepOld(st, oldId, newId, doc) == SetDoc(st, newId, doc)

\* tx.set(newRef, doc); tx.delete(oldRef)
Rename(st, oldId, newId, doc) == SetDoc(DeleteDoc(st, oldId), newId, doc)

\* The commit of the rename transaction, or the return of its failure.
UpdTxCommit(p, fail) ==
  /\ pc[p] = "upd_tx_commit"
  /\ UNCHANGED <<arg, calls, addOk, prev, meta>>
  /\ IF fail
     THEN /\ Finish(p, Failed(BackendError))
          /\ loc' = [loc EXCEPT ![p] = NoLoc]
          /\ UNCHANGED store
     ELSE IF ~TxValid(p)
     THEN /\ Goto(p, "upd_tx_target")
          /\ loc' = [loc EXCEPT ![p] = NoLoc]
          /\ UNCHANGED store
     ELSE IF loc[p].out # "rename"
     THEN /\ Finish(p, Failed(loc[p].out))
          /\ loc' = [loc EXCEPT ![p] = NoLoc]
          /\ UNCHANGED store
     ELSE /\ store' = Rename(store, arg[p].id, makeEntryId(arg[p].data),
                             Merge(loc[p].old, arg[p].data))
          /\ Finish(p, OkId(makeEntryId(arg[p].data)))
          /\ loc' = Invalidate(p, {arg[p].id, makeEntryId(arg[p].data)})

\* ---------------------------------------------------------- deleteEntryById

CallDel(p, id) ==
  /\ pc[p] = "idle"
  /\ calls < MaxCalls
  /\ calls' = calls + 1
  /\ arg' = [arg EXCEPT ![p] = [op |-> "del", id |-> id, data |-> NoDoc]]
  /\ Goto(p, "del_write")
  /\ UNCHANGED <<store, loc, addOk, prev, meta>>

\* await db.collection(ENTRIES_COLL).doc(id).delete()
DelWrite(p, fail) ==
  /\ pc[p] = "del_write"
  /\ UNCHANGED <<arg, calls, addOk, prev, meta>>
  /\ IF fail
     THEN /\ Finish(p, Failed(BackendError))
          /\ UNCHANGED <<store, loc>>
     ELSE /\ store' = DeleteDoc(store, arg[p].id)
          /\ Finish(p, Ok)
          /\ loc' = Invalidate(p, {arg[p].id} \cap DOMAIN store)

\* ---------------------------------------------------------- toggleLockEntry

CallTog(p, id) ==
  /\ pc[p] = "idle"
  /\ calls < MaxCalls
  /\ calls' = calls + 1
  /\ arg' = [arg EXCEPT ![p] = [op |-> "tog", id |-> id, data |-> NoDoc]]
  /\ Goto(p, "tog_read")
  /\ UNCHANGED <<store, loc, addOk, prev, meta>>

\* const snap = await docRef.get(); const current = snap.data() || {}
TogRead(p, fail) ==
  /\ pc[p] = "tog_read"
  /\ UNCHANGED <<store, arg, calls, addOk, prev, meta>>
  /\ IF fail
     THEN /\ Finish(p, Failed(BackendError))
          /\ UNCHANGED loc
     ELSE IF arg[p].id \notin DOMAIN store
     THEN /\ Finish(p, Failed("not found"))
          /\ UNCHANGED loc
     ELSE /\ Goto(p, "tog_write")
          /\ loc' = [loc EXCEPT ![p] =
                       [NoLoc EXCEPT !.cur = IsLocked(store[arg[p].id])]]

ToggledStuck(current) == TRUE

\* !current.locked
Toggled(current) == ~current

\* await docRef.update({ locked: !current.locked })
TogWrite(p, fail) ==
  /\ pc[p] = "tog_write"
  /\ UNCHANGED <<arg, calls, addOk, prev, meta>>
  /\ IF fail
     THEN /\ Finish(p, Failed(BackendError))
          /\ loc' = [loc EXCEPT ![p] = NoLoc]
          /\ UNCHANGED store
     ELSE IF arg[p].id \notin DOMAIN store
     THEN /\ Finish(p, Failed(NoDocumentError))
          /\ loc' = [loc EXCEPT ![p] = NoLoc]
          /\ UNCHANGED store
     ELSE /\ store' = [store EXCEPT ![arg[p].id] =
                         Merge(@, [locked |-> Toggled(loc[p].cur)])]
          /\ Finish(p, Ok)
          /\ loc' = [Invalidate(p, {arg[p].id}) EXCEPT
                       ![p] = [NoLoc EXCEPT !.old = store[arg[p].id]]]

\* ---------------------------------------------------------------- metadata

\* Slots of one school day in a course timetable.
SlotsPerDay == 6

Days == {"mon", "tue", "wed", "thu", "fri"}

\* Array.from({length:6}).map(()=>'')
EmptySlots == [i \in 1..SlotsPerDay |-> ""]

\* { mon: [...], tue: [...], wed: [...], thu: [...], fri: [...] } of ''
DefaultTimetable == [d \in Days |-> EmptySlots]

\* What loadMeta returns when there is no document to read.
DefaultMeta == [courses |-> <<>>, subjects |-> <<>>, teachers |-> <<>>]

LowerCase ==
  <<"a","b","c","d","e","f","g","h","i","j","k","l","m","n","o","p","q","r",
    "s","t","u","v","w","x","y","z">>
UpperCase ==
  <<"A","B","C","D","E","F","G","H","I","J","K","L","M","N","O","P","Q","R",
    "S","T","U","V","W","X","Y","Z">>

\* String.prototype.toUpperCase, one character
UpperChar(ch) ==
  IF \E i \in DOMAIN LowerCase : LowerCase[i] = ch
  THEN UpperCase[CHOOSE i \in DOMAIN LowerCase : LowerCase[i] = ch]
  ELSE ch

\* s.replace(/\s+/g,'')
RemoveSpace(s) == SelectSeq(s, LAMBDA ch : ch \notin WhiteSpace)

\* The id addCourse gives the course called name.
CourseId(name) ==
  [i \in DOMAIN RemoveSpace(name) |-> UpperChar(RemoveSpace(name)[i])]

\* meta.courses || []
CoursesOf(m) == IF "courses" \in DOMAIN m THEN m.courses ELSE <<>>

\* meta.courses.find(c => c.id === id) finds a course
HasCourse(m, id) == \E i \in DOMAIN CoursesOf(m) : CoursesOf(m)[i].id = id

\* students || []
StudentsOrNone(data) ==
  IF "students" \in DOMAIN data THEN data.students ELSE <<>>

\* The course object addCourse pushes.
NewCourse(name, data) ==
  [id |-> CourseId(name), name |-> name, students |-> StudentsOrNone(data),
   timetable |-> DefaultTimetable]

\* The metadata object addCourse saves.
Appended(m, name, data) ==
  Merge(m, [courses |-> Append(CoursesOf(m), NewCourse(name, data))])

\* The metadata object deleteCourse saves.
Filtered(m, id) ==
  Merge(m, [courses |-> SelectSeq(CoursesOf(m), LAMBDA c : c.id # id)])

\* arr.slice(0,6), then '' pushed while shorter than 6
TruncatedDay(arr) ==
  [i \in 1..SlotsPerDay |-> IF i <= Len(arr) THEN arr[i] ELSE ""]

\* !Array.isArray(c.timetable[d]) || c.timetable[d].length !== 6
DayNeedsRepair(tt, d) == d \notin DOMAIN tt \/ Len(tt[d]) # SlotsPerDay

\* The day d of a timetable after ensureDefaults has looked at it.
RepairedDay(tt, d) ==
  IF d \notin DOMAIN tt THEN EmptySlots
  ELSE IF Len(tt[d]) # SlotsPerDay THEN TruncatedDay(tt[d])
  ELSE tt[d]

\* A course after ensureDefaults has looked at it.
RepairedCourse(c) ==
  IF "timetable" \notin DOMAIN c
  THEN Merge(c, [timetable |-> DefaultTimetable])
  ELSE Merge(c, [timetable |->
         Merge(c.timetable, [d \in Days |-> RepairedDay(c.timetable, d)])])

\* ensureDefaults' flag 'changed' once it has gone through m
Changed(m) ==
  \/ "courses" \notin DOMAIN m
  \/ "subjects" \notin DOMAIN m
  \/ "teachers" \notin DOMAIN m
  \/ \E i \in DOMAIN CoursesOf(m) :
       \/ "timetable" \notin DOMAIN CoursesOf(m)[i]
       \/ \E d \in Days : DayNeedsRepair(CoursesOf(m)[i].timetable, d)

\* The metadata object ensureDefaults has in hand after going through m.
Ensured(m) ==
  Merge(Merge(DefaultMeta, m),
        [courses |-> [i \in DOMAIN CoursesOf(m) |->
                        RepairedCourse(CoursesOf(m)[i])]])

\* Courses as earlier versions of the program stored them: without a
\* timetable, and with days that are short, long or missing.
PlainCourse ==
  [id |-> <<"A">>, name |-> <<"a">>, students |-> <<"s1">>]
RaggedCourse ==
  [id |-> <<"B">>, name |-> <<"b">>, students |-> <<>>,
   timetable |-> [mon |-> <<"M", "D">>,
                  tue |-> <<"1", "2", "3", "4", "5", "6", "7">>,
                  thu |-> <<"", "", "", "", "", "E">>,
                  fri |-> EmptySlots,
                  sat |-> <<"S">>]]

\* The metadata objects saveMeta is called with; they are also the documents
\* a session may find stored when it starts.
MetaInputs ==
  {DefaultMeta,
   [subjects |-> <<"Ma">>],
   [courses |-> <<PlainCourse>>, teachers |-> <<"T">>, year |-> "24"],
   [courses |-> <<PlainCourse, RaggedCourse>>, subjects |-> <<"Ma", "De">>,
    teachers |-> <<"T">>]}

StoredMetas == {NoMeta} \cup {[exists |-> TRUE, data |-> m] : m \in MetaInputs}

\* The names addCourse is called with: two that differ in case and blanks
\* only, and another one.
CourseNames == {<<"a">>, <<" ", "A">>, <<"c">>}

\* The second argument of addCourse: left out, or a list of students.
StudentInputs == {NoDoc, [students |-> <<"s2">>]}

\* The ids deleteCourse is called with.
CourseIds == {<<"A">>, <<"B">>, <<"C">>}

\* A session that finds any of the metadata documents stored.
InitMeta ==
  /\ store = NoDoc
  /\ pc = [p \in Callers |-> "idle"]
  /\ arg = [p \in Callers |-> NoArg]
  /\ loc = [p \in Callers |-> NoLoc]
  /\ res = [p \in Callers |-> NoRes]
  /\ calls = 0
  /\ addOk = [k \in AddKeys |-> 0]
  /\ prev = NoPrev
  /\ meta \in StoredMetas

MetaReadMasksAbsent(m, fail) == IF fail THEN DefaultMeta ELSE m.data

\* What loadMeta returns: the document's fields, or the default when the
\* document does not exist or the read fails.
MetaRead(m, fail) == IF fail \/ ~m.exists THEN DefaultMeta ELSE m.data

SetNoMerge(m, data) == [exists |-> TRUE, data |-> data]

\* The document after set(data, {merge:true}).
SetMerge(m, data) == [exists |-> TRUE, data |-> Merge(m.data, data)]

CallLoadMeta(p) ==
  /\ pc[p] = "idle"
  /\ calls < MaxCalls
  /\ calls' = calls + 1
  /\ arg' = [arg EXCEPT ![p] = [op |-> "loadMeta", id |-> <<>>, data |-> NoDoc]]
  /\ Goto(p, "meta_load")
  /\ UNCHANGED <<store, loc, addOk, prev, meta>>

CallSaveMeta(p, m) ==
  /\ pc[p] = "idle"
  /\ calls < MaxCalls
  /\ calls' = calls + 1
  /\ arg' = [arg EXCEPT ![p] = [op |-> "saveMeta", id |-> <<>>, data |-> m]]
  /\ loc' = [loc EXCEPT ![p] = [NoLoc EXCEPT !.old = m]]
  /\ Goto(p, "meta_save")
  /\ UNCHANGED <<store, addOk, prev, meta>>

CallAddCourse(p, name, data) ==
  /\ pc[p] = "idle"
  /\ calls < MaxCalls
  /\ calls' = calls + 1
  /\ arg' = [arg EXCEPT ![p] = [op |-> "addCourse", id |-> name, data |-> data]]
  /\ Goto(p, "meta_load")
  /\ UNCHANGED <<store, loc, addOk, prev, meta>>

CallDeleteCourse(p, id) ==
  /\ pc[p] = "idle"
  /\ calls < MaxCalls
  /\ calls' = calls + 1
  /\ arg' = [arg EXCEPT ![p] = [op |-> "deleteCourse", id |-> id, data |-> NoDoc]]
  /\ Goto(p, "meta_load")
  /\ UNCHANGED <<store, loc, addOk, prev, meta>>

CallEnsureDefaults(p) ==
  /\ pc[p] = "idle"
  /\ calls < MaxCalls
  /\ calls' = calls + 1
  /\ arg' = [arg EXCEPT ![p] = [op |-> "ensureDefaults", id |-> <<>>, data |-> NoDoc]]
  /\ Goto(p, "meta_load")
  /\ UNCHANGED <<store, loc, addOk, prev, meta>>

\* What the call does with the metadata m that its loadMeta returned: it
\* returns at once ("return"), or goes on to save ("save").
AfterLoad(a, m) ==
  IF a.op = "loadMeta" THEN "return"
  ELSE IF a.op = "addCourse"
  THEN (IF HasCourse(m, CourseId(a.id)) THEN "return" ELSE "save")
  ELSE IF a.op = "deleteCourse" THEN "save"
  ELSE IF Changed(m) THEN "save" ELSE "return"

\* What the call returns when it returns after its loadMeta.
LoadResult(a, m) ==
  IF a.op = "loadMeta" THEN [value |-> m]
  ELSE IF a.op = "addCourse" THEN Failed("exists")
  ELSE Ok

\* The metadata object the call hands to saveMeta.
ToSave(a, m) ==
  IF a.op = "addCourse" THEN Appended(m, a.id, a.data)
  ELSE IF a.op = "deleteCourse" THEN Filtered(m, a.id)
  ELSE Ensured(m)

\* loadMeta: db.collection('meta').doc('default').get(), and what the caller
\* does until its next await.  loc.out records how the read went.
MetaLoad(p, fail) ==
  /\ pc[p] = "meta_load"
  /\ IF AfterLoad(arg[p], MetaRead(meta, fail)) = "return"
     THEN /\ Finish(p, LoadResult(arg[p], MetaRead(meta, fail)))
          /\ loc' = [loc EXCEPT ![p] =
                       [NoLoc EXCEPT !.out = IF fail THEN "read failed"
                                             ELSE "read"]]
     ELSE /\ Goto(p, "meta_save")
          /\ loc' = [loc EXCEPT ![p] =
                       [NoLoc EXCEPT !.old = ToSave(arg[p], MetaRead(meta, fail)),
                                     !.out = IF fail THEN "read failed"
                                             ELSE "read"]]
  /\ UNCHANGED <<store, arg, calls, addOk, prev, meta>>

\* What the call returns after its saveMeta: saveMeta returns its own
\* outcome; addCourse, deleteCourse and ensureDefaults await saveMeta and
\* return ok:true without looking at what it returned.
SaveResult(a, fail) ==
  IF a.op = "saveMeta"
  THEN (IF fail THEN Failed(BackendError) ELSE Ok)
  ELSE IF a.op = "addCourse" THEN OkId(CourseId(a.id))
  ELSE Ok

\* saveMeta: set(meta, {merge:true}).  loc.out records how the write went.
MetaSave(p, fail) ==
  /\ pc[p] = "meta_save"
  /\ meta' = IF fail THEN meta ELSE SetMerge(meta, loc[p].old)
  /\ Finish(p, SaveResult(arg[p], fail))
  /\ loc' = [loc EXCEPT ![p] =
               [NoLoc EXCEPT !.out = IF fail THEN "write failed"
                                     ELSE "written"]]
  /\ UNCHANGED <<store, arg, calls, addOk, prev>>

\* ------------------------------------- addEntry of the natural-key-query variant
\* In this variant the entries have ids that the backend generates, and
\* addEntry looks for an entry with the same course, date and hour by a query.

LockedMessage == "Diese Stunde ist gesperrt und kann nicht ueberschrieben werden."
ExistsMessage == "Fuer diesen Kurs/Datum/Stunde existiert bereits ein Eintrag."

\* firebase.firestore.FieldValue.serverTimestamp(), as stored
ServerTimestamp == "server time"

\* The ids the backend generates, in the order of the document names.
AutoIds == <<"k1", "k2", "k3", "k4">>

\* The entries this addEntry is called with: those of the other variant, and
\* one that brings its own createdAt.
AltAddInputs ==
  AddInputs \cup {Merge(Entry(CourseA, "t2"), [createdAt |-> "caller time"])}

\* The documents where('course','==',..).where('date','==',..)
\* .where('hour','==',..) selects, by their positions in the name order.
AltMatches(st, entry) ==
  {i \in DOMAIN AutoIds :
     /\ AutoIds[i] \in DOMAIN st
     /\ {"course", "date", "hour"} \subseteq DOMAIN st[AutoIds[i]]
     /\ st[AutoIds[i]].course = entry.course
     /\ st[AutoIds[i]].date = entry.date
     /\ st[AutoIds[i]].hour = entry.hour}

\* q.docs[0].data()
FirstMatch(st, entry) ==
  st[AutoIds[CHOOSE i \in AltMatches(st, entry) :
               \A j \in AltMatches(st, entry) : i <= j]]

AltQueryOutcomeNoLockCheck(st, entry) ==
  IF AltMatches(st, entry) = {} THEN "insert" ELSE ExistsMessage

\* What addEntry makes of the query result: it goes on to insert, or it
\* returns one of the two messages.
AltQueryOutcome(st, entry) ==
  IF AltMatches(st, entry) = {} THEN "insert"
  ELSE IF IsLocked(FirstMatch(st, entry)) THEN LockedMessage
  ELSE ExistsMessage

\* toSave: a copy of entry, with createdAt set when entry has none
AltToSave(entry) ==
  IF "createdAt" \in DOMAIN entry THEN entry
  ELSE Merge(entry, [createdAt |-> ServerTimestamp])

CallAltAdd(p, entry) ==
  /\ pc[p] = "idle"
  /\ calls < MaxCalls
  /\ calls' = calls + 1
  /\ arg' = [arg EXCEPT ![p] = [op |-> "altAdd", id |-> <<>>, data |-> entry]]
  /\ Goto(p, "alt_query")
  /\ UNCHANGED <<store, loc, addOk, prev, meta>>

\* const q = await db.collection('entries').where(...).get()
AltAddQuery(p, fail) ==
  /\ pc[p] = "alt_query"
  /\ IF fail
     THEN Finish(p, Failed(BackendError))
     ELSE IF AltQueryOutcome(store, arg[p].data) = "insert"
     THEN Goto(p, "alt_insert")
     ELSE Finish(p, Failed(AltQueryOutcome(store, arg[p].data)))
  /\ UNCHANGED <<store, arg, loc, calls, addOk, prev, meta>>

AltInsertedUnlessPresent(st, id, entry) ==
  IF AltMatches(st, entry) # {} THEN st ELSE SetDoc(st, id, AltToSave(entry))

\* The collection after add(toSave) has given the new document the id id:
\* add does not look at the documents that are stored.
AltInserted(st, id, entry) == SetDoc(st, id, AltToSave(entry))

\* await db.collection('entries').add(toSave); return { ok: true }
AltAddInsert(p, fail) ==
  /\ pc[p] = "alt_insert"
  /\ IF fail
     THEN /\ Finish(p, Failed(BackendError))
          /\ UNCHANGED store
     ELSE /\ \E i \in DOMAIN AutoIds :
               /\ AutoIds[i] \notin DOMAIN store
               /\ store' = AltInserted(store, AutoIds[i], arg[p].data)
          /\ Finish(p, Ok)
  /\ UNCHANGED <<arg, loc, calls, addOk, prev, meta>>

\* -------------------------------------------------------------- loadEntries
\* What loadEntries returns is modelled by the entries that are in it, each
\* with its id; the order of the result is left out.

\* snap.docs.map(d => ({ id: d.id, ...d.data() })) for the documents ids
Listing(st, ids) == {Merge([id |-> i], st[i]) : i \in ids}

\* The documents orderBy('date').orderBy('hour') selects: those that have
\* both fields.
OrderedIds(st) == {i \in DOMAIN st : {"date", "hour"} \subseteq DOMAIN st[i]}

CallLoadEntries(p) ==
  /\ pc[p] = "idle"
  /\ calls < MaxCalls
  /\ calls' = calls + 1
  /\ arg' = [arg EXCEPT ![p] = [op |-> "loadEntries", id |-> <<>>, data |-> NoDoc]]
  /\ Goto(p, "list_ordered")
  /\ UNCHANGED <<store, loc, addOk, prev, meta>>

\* const snap = await db.collection(ENTRIES_COLL).orderBy('date')
\* .orderBy('hour').get(); a failure leads to the fallback
ListOrdered(p, fail) ==
  /\ pc[p] = "list_ordered"
  /\ IF fail
     THEN /\ Goto(p, "list_scan")
          /\ UNCHANGED loc
     ELSE /\ Finish(p, [value |-> Listing(store, OrderedIds(store))])
          /\ loc' = [loc EXCEPT ![p] = [NoLoc EXCEPT !.out = "ordered"]]
  /\ UNCHANGED <<store, arg, calls, addOk, prev, meta>>

\* const snap2 = await db.collection(ENTRIES_COLL).get(); a failure gives []
ListScan(p, fail) ==
  /\ pc[p] = "list_scan"
  /\ IF fail
     THEN /\ Finish(p, [value |-> {}])
          /\ loc' = [loc EXCEPT ![p] = [NoLoc EXCEPT !.out = "scan failed"]]
     ELSE /\ Finish(p, [value |-> Listing(store, DOMAIN store)])
          /\ loc' = [loc EXCEPT ![p] = [NoLoc EXCEPT !.out = "scan"]]
  /\ UNCHANGED <<store, arg, calls, addOk, prev, meta>>

CallAltLoadEntries(p) ==
  /\ pc[p] = "idle"
  /\ calls < MaxCalls
  /\ calls' = calls + 1
  /\ arg' = [arg EXCEPT ![p] = [op |-> "altLoadEntries", id |-> <<>>, data |-> NoDoc]]
  /\ Goto(p, "alt_list")
  /\ UNCHANGED <<store, loc, addOk, prev, meta>>

\* loadEntries of the natural-key-query variant: the ordered query, and []
\* when it fails
AltList(p, fail) ==
  /\ pc[p] = "alt_list"
  /\ IF fail
     THEN /\ Finish(p, [value |-> {}])
          /\ loc' = [loc EXCEPT ![p] = [NoLoc EXCEPT !.out = "ordered failed"]]
     ELSE /\ Finish(p, [value |-> Listing(store, OrderedIds(store))])
          /\ loc' = [loc EXCEPT ![p] = [NoLoc EXCEPT !.out = "ordered"]]
  /\ UNCHANGED <<store, arg, calls, addOk, prev, meta>>

\* ---------------------------------------------------------------- stub mode
\* When the Firebase SDK is not there as the script loads, window.kbStorage
\* is bound to an object of functions that do not touch any backend.

\* The operations of the facade.
FacadeOps ==
  {"loadMeta", "saveMeta", "loadEntries", "addEntry", "updateEntry",
   "deleteEntryById", "toggleLockEntry", "getStudentsForCourse", "addCourse",
   "deleteCourse", "ensureDefaults"}

\* A call that ends with a raised error instead of a returned value.
Raised(message) == [raised |-> message]

\* The call of a property that the object does not have.
NotAFunction == Raised("kbStorage[op] is not a function")

\* What a call of op gives when kbStorage is the stub of the
\* deterministic-key variant: defaults and failure results; the stub has no
\* addCourse and no deleteCourse.
StubResult(op) ==
  IF op = "loadMeta" THEN [value |-> DefaultMeta]
  ELSE IF op \in {"saveMeta", "addEntry", "updateEntry"}
  THEN Failed("firebase missing")
  ELSE IF op = "loadEntries" THEN [value |-> {}]
  ELSE IF op \in {"deleteEntryById", "toggleLockEntry"} THEN [ok |-> FALSE]
  ELSE IF op = "ensureDefaults" THEN [value |-> "undefined"]
  ELSE IF op = "getStudentsForCourse" THEN [value |-> <<>>]
  ELSE NotAFunction

\* What a call of op gives when kbStorage is the stub of the
\* natural-key-query variant: every function throws; the stub has no
\* updateEntry.
AltStubResult(op) ==
  IF op = "updateEntry" THEN NotAFunction
  ELSE Raised("Firebase nicht initialisiert")

CallStub(p, op) ==
  /\ pc[p] = "idle"
  /\ calls < MaxCalls
  /\ calls' = calls + 1
  /\ arg' = [arg EXCEPT ![p] = [op |-> op, id |-> <<>>, data |-> [mode |-> "stub"]]]
  /\ Finish(p, StubResult(op))
  /\ UNCHANGED <<store, loc, addOk, prev, meta>>

CallAltStub(p, op) ==
  /\ pc[p] = "idle"
  /\ calls < MaxCalls
  /\ calls' = calls + 1
  /\ arg' = [arg EXCEPT ![p] = [op |-> op, id |-> <<>>, data |-> [mode |-> "stub"]]]
  /\ Finish(p, AltStubResult(op))
  /\ UNCHANGED <<store, loc, addOk, prev, meta>>

\* ------------------------------------------------------------ specifications

AddStep(p) ==
  \/ \E entry \in AddInputs : CallAdd(p, entry)
  \/ \E fail \in BOOLEAN : AddGet(p, fail)
  \/ \E fail \in BOOLEAN : AddCommit(p, fail)
  \/ Return(p)

NextAdd == \E p \in Callers : AddStep(p)

NextAddSeq == AddStep("c1")

Step(p) ==
  \/ \E entry \in AddInputs : CallAdd(p, entry)
  \/ \E fail \in BOOLEAN : AddGet(p, fail)
  \/ \E fail \in BOOLEAN : AddCommit(p, fail)
  \/ \E oldId \in UpdIds, data \in UpdInputs : CallUpd(p, oldId, data)
  \/ \E fail \in BOOLEAN : UpdRead(p, fail)
  \/ \E fail \in BOOLEAN : UpdDirect(p, fail)
  \/ \E fail \in BOOLEAN : UpdTxTarget(p, fail)
  \/ \E fail \in BOOLEAN : UpdTxOld(p, fail)
  \/ \E fail \in BOOLEAN : UpdTxCommit(p, fail)
  \/ \E id \in DocIds : CallDel(p, id)
  \/ \E fail \in BOOLEAN : DelWrite(p, fail)
  \/ \E id \in DocIds : CallTog(p, id)
  \/ \E fail \in BOOLEAN : TogRead(p, fail)
  \/ \E fail \in BOOLEAN : TogWrite(p, fail)
  \/ Return(p)

Next == \E p \in Callers : Step(p)

NextSeq == Step("c1")

\* every operation, any number of callers at once
Spec == Init /\ [][Next]_vars

\* every operation, one call after the other
SpecSeq == Init /\ [][NextSeq]_vars

\* addEntry only, any number of callers at once
SpecAdd == Init /\ [][NextAdd]_vars

\* addEntry only, one call after the other
SpecAddSeq == Init /\ [][NextAddSeq]_vars

MetaStep(p) ==
  \/ CallLoadMeta(p)
  \/ \E m \in MetaInputs : CallSaveMeta(p, m)
  \/ \E name \in CourseNames, data \in StudentInputs : CallAddCourse(p, name, data)
  \/ \E id \in CourseIds : CallDeleteCourse(p, id)
  \/ CallEnsureDefaults(p)
  \/ \E fail \in BOOLEAN : MetaLoad(p, fail)
  \/ \E fail \in BOOLEAN : MetaSave(p, fail)
  \/ Return(p)

NextMetaSeq == MetaStep("c1")

CourseStep(p) ==
  \/ \E name \in CourseNames, data \in StudentInputs : CallAddCourse(p, name, data)
  \/ \E id \in CourseIds : CallDeleteCourse(p, id)
  \/ \E fail \in BOOLEAN : MetaLoad(p, fail)
  \/ \E fail \in BOOLEAN : MetaSave(p, fail)
  \/ Return(p)

NextCourses == \E p \in Callers : CourseStep(p)

\* addCourse and deleteCourse, any number of callers at once
SpecCourses == InitMeta /\ [][NextCourses]_vars

\* the metadata operations, one call after the other
SpecMetaSeq == InitMeta /\ [][NextMetaSeq]_vars

AltStep(p) ==
  \/ \E entry \in AltAddInputs : CallAltAdd(p, entry)
  \/ \E fail \in BOOLEAN : AltAddQuery(p, fail)
  \/ \E fail \in BOOLEAN : AltAddInsert(p, fail)
  \/ Return(p)

NextAltSeq == AltStep("c1")

NextAlt == \E p \in Callers : AltStep(p)

\* addEntry of the natural-key-query variant, any number of callers at once
SpecAlt == Init /\ [][NextAlt]_vars

\* addEntry of the natural-key-query variant, one call after the other
SpecAltSeq == Init /\ [][NextAltSeq]_vars

ListStep(p) ==
  \/ \E entry \in AddInputs : CallAdd(p, entry)
  \/ \E fail \in BOOLEAN : AddGet(p, fail)
  \/ \E fail \in BOOLEAN : AddCommit(p, fail)
  \/ CallLoadEntries(p)
  \/ \E fail \in BOOLEAN : ListOrdered(p, fail)
  \/ \E fail \in BOOLEAN : ListScan(p, fail)
  \/ Return(p)

NextListSeq == ListStep("c1")

\* addEntry and loadEntries, one call after the other
SpecListSeq == Init /\ [][NextListSeq]_vars

AltListStep(p) ==
  \/ \E entry \in AltAddInputs : CallAltAdd(p, entry)
  \/ \E fail \in BOOLEAN : AltAddQuery(p, fail)
  \/ \E fail \in BOOLEAN : AltAddInsert(p, fail)
  \/ CallAltLoadEntries(p)
  \/ \E fail \in BOOLEAN : AltList(p, fail)
  \/ Return(p)

NextAltListSeq == AltListStep("c1")

\* addEntry and loadEntries of the natural-key-query variant, one call after
\* the other
SpecAltListSeq == Init /\ [][NextAltListSeq]_vars

StubStep(p) ==
  \/ \E op \in FacadeOps : CallStub(p, op)
  \/ Return(p)

NextStub == \E p \in Callers : StubStep(p)

\* the stub of the deterministic-key variant
SpecStub == Init /\ [][NextStub]_vars

AltStubStep(p) ==
  \/ \E op \in FacadeOps : CallAltStub(p, op)
  \/ Return(p)

NextAltStub == \E p \in Callers : AltStubStep(p)

\* the stub of the natural-key-query variant
SpecAltStub == Init /\ [][NextAltStub]_vars

\* ------------------------------------------------------------------- claims

\* The call of p has returned r from operation op.
Returned(p, op) == pc[p] = "done" /\ arg[p].op = op

\* The document id made from a natural key.
KeyId(k) == makeEntryId([course |-> k[1], date |-> k[2], hour |-> k[3]])

\* The stored documents whose natural key is k.
DocsWithKey(k) == {id \in DOMAIN store : NaturalKey(store[id]) = k}

\* C1: in a sequence of addEntry calls, a call whose backend round trips
\* succeed returns ok:true with the id made from its key when it is the first
\* to succeed for its (course, date, hour), leaving the entry stored under
\* that id; otherwise it returns 'duplicate', an earlier call for the same
\* key has returned ok:true, and the entry stored for the key is unchanged.
C1_AddOncePerKey ==
  \A p \in Callers :
    (Returned(p, "add") /\ res[p] # Failed(BackendError)) =>
      IF res[p].ok
      THEN /\ res[p] = OkId(makeEntryId(arg[p].data))
           /\ addOk[NaturalKey(arg[p].data)] = 1
           /\ store[res[p].id] = arg[p].data
      ELSE /\ res[p] = Failed("duplicate")
           /\ addOk[NaturalKey(arg[p].data)] = 1
           /\ DocsWithKey(NaturalKey(arg[p].data)) # {}

\* C2: however addEntry calls interleave, at most one call per natural key
\* returns ok:true and the key then has exactly one document; once a call
\* for a document id has returned without a backend error, exactly one call
\* for that id has returned ok:true, and every other one 'duplicate'.
C2_ConcurrentAddOnce ==
  /\ \A k \in AddKeys :
       /\ addOk[k] <= 1
       /\ Cardinality(DocsWithKey(k)) = addOk[k]
  /\ \A p \in Callers :
       (Returned(p, "add") /\ res[p] # Failed(BackendError)) =>
         /\ Cardinality({k \in AddKeys : KeyId(k) = arg[p].id /\ addOk[k] = 1}) = 1
         /\ arg[p].id \in DOMAIN store
         /\ res[p] \in {OkId(arg[p].id), Failed("duplicate")}

\* Two addEntry calls for one key have both passed the existence check; one
\* has committed and returned ok:true, the other's transaction is invalid.
C2_Witness ==
  \E p, q \in Callers :
    /\ p # q
    /\ Returned(p, "add") /\ res[p] = OkId(arg[p].id)
    /\ pc[q] = "add_commit" /\ loc[q].stale /\ loc[q].out = "create"
    /\ NaturalKey(arg[q].data) = NaturalKey(arg[p].data)

\* C3: no two stored entries have the same (course, date, hour), and every
\* stored entry's document id is the id made from its own fields.
C3_NaturalKeyUnique ==
  /\ \A id \in DOMAIN store : id = makeEntryId(store[id])
  /\ \A i, j \in DOMAIN store :
       i # j => NaturalKey(store[i]) # NaturalKey(store[j])

\* newFields leaves the natural key of doc as it is.
KeyUnchanged(doc, data) == NaturalKey(Merge(doc, data)) = NaturalKey(doc)

\* The call of p, an updateEntry on a stored unlocked entry, returns in this
\* step from its write without a backend error.
UpdWriteReturns(p) ==
  /\ arg[p].op = "upd"
  /\ pc[p] \in {"upd_direct", "upd_tx_commit"}
  /\ pc'[p] = "done"
  /\ res'[p] # Failed(BackendError)
  /\ arg[p].id \in DOMAIN store
  /\ ~IsLocked(store[arg[p].id])

\* C4: called alone on a stored unlocked entry with newFields that leave
\* course, date and hour as they are, updateEntry returns ok:true and the
\* collection differs only in that entry, which has newFields merged in:
\* it keeps its id, and no document is created or deleted.
C4_UnchangedKeyDirectUpdate ==
  [][\A p \in Callers :
       (UpdWriteReturns(p) /\ KeyUnchanged(store[arg[p].id], arg[p].data)) =>
         /\ res'[p].ok
         /\ store' = [store EXCEPT ![arg[p].id] = Merge(@, arg[p].data)]]_vars

\* C5: however updateEntry and toggleLockEntry interleave, a step leaves
\* every locked entry in place with the same fields, unless it is the write
\* of a toggleLockEntry or of a deleteEntryById on that entry.
C5_LockedNeverMutated ==
  [][\A id \in DOMAIN store :
       IsLocked(store[id]) =>
         \/ id \in DOMAIN store' /\ store'[id] = store[id]
         \/ \E p \in Callers :
              /\ pc[p] \in {"tog_write", "del_write"}
              /\ arg[p].id = id
              /\ pc'[p] = "done"]_vars

\* C6: called alone on an entry whose locked flag is true, updateEntry
\* returns from its first read with {ok:false, reason:'locked'} (or with the
\* backend's error when that read fails), whatever newFields is, and the
\* collection is unchanged.
C6_LockedRejectsUpdate ==
  [][\A p \in Callers :
       ( /\ pc[p] = "upd_read"
         /\ pc'[p] # "upd_read"
         /\ arg[p].id \in DOMAIN store
         /\ IsLocked(store[arg[p].id]) ) =>
         /\ pc'[p] = "done"
         /\ res'[p] \in {Failed("locked"), Failed(BackendError)}
         /\ store' = store]_vars

\* A key-changing updateEntry on a locked entry has returned 'locked'.
C6_Witness ==
  \E p \in Callers :
    /\ Returned(p, "upd") /\ res[p] = Failed("locked")
    /\ arg[p].id \in DOMAIN store /\ IsLocked(store[arg[p].id])
    /\ ~KeyUnchanged(store[arg[p].id], arg[p].data)

\* C7: a successful toggleLockEntry called alone flips the entry's lock
\* state and changes no other field; when the call before it was a
\* successful toggleLockEntry of the same entry, the entry is as it was
\* before that call, with locked true if it was true and false if it was
\* false or absent.
C7_ToggleInvolution ==
  \A p \in Callers :
    (Returned(p, "tog") /\ res[p] = Ok) =>
      /\ arg[p].id \in DOMAIN store
      /\ store[arg[p].id] =
           Merge(loc[p].old, [locked |-> ~IsLocked(loc[p].old)])
      /\ prev.id = arg[p].id =>
           store[arg[p].id] = Merge(prev.doc, [locked |-> IsLocked(prev.doc)])

\* Two consecutive toggles of a locked entry have returned: it is locked
\* again.
C7_Witness ==
  \E p \in Callers :
    /\ Returned(p, "tog") /\ res[p] = Ok
    /\ prev.id = arg[p].id
    /\ IsLocked(prev.doc)
    /\ IsLocked(store[arg[p].id])

\* The call of p, an updateEntry with an id, returns in this step while no
\* entry is stored under its id.
UpdReturnsOnMissing(p) ==
  /\ arg[p].op = "upd"
  /\ pc[p] \notin {"idle", "done"}
  /\ pc'[p] = "done"
  /\ arg[p].id \notin DOMAIN store

\* C8 as claimed: an updateEntry that returns while its id names no stored
\* entry, also when the entry was deleted after the initial read, returns
\* reason 'not found' (when no backend round trip fails) and writes nothing.
C8_MissingAlwaysNotFound ==
  [][\A p \in Callers :
       (UpdReturnsOnMissing(p) /\ res'[p] # Failed(BackendError)) =>
         /\ res'[p] = Failed("not found")
         /\ store' = store]_vars

\* The reasons updateEntry returns from the await at label when its id names
\* no stored entry.
MissingReasons(label) ==
  CASE label = "upd_read" -> {"not found", BackendError}
    [] label = "upd_direct" -> {NoDocumentError, BackendError}
    [] label = "upd_tx_commit" ->
         {"not_found_during_tx", "duplicate_target", BackendError}
    [] OTHER -> {BackendError}

\* C8 amended: an updateEntry that returns while its id names no stored
\* entry returns ok:false and writes nothing; the reason is 'not found' when
\* the entry is missing at the initial read, and when it was deleted after
\* that read it is the backend's update error (direct update) or
\* 'not_found_during_tx' or 'duplicate_target' (rename).
C8_MissingNeverWritten ==
  [][\A p \in Callers :
       UpdReturnsOnMissing(p) =>
         /\ ~res'[p].ok
         /\ res'[p].reason \in MissingReasons(pc[p])
         /\ store' = store]_vars

\* A rename has returned 'not_found_during_tx': its entry was deleted after
\* the initial read.
C8_Witness ==
  \E p \in Callers :
    /\ Returned(p, "upd") /\ res[p] = Failed("not_found_during_tx")
    /\ arg[p].id \notin DOMAIN store

\* C9: called alone on a stored unlocked entry with newFields that change
\* its natural key to one whose id names another stored entry, updateEntry
\* returns {ok:false, reason:'duplicate_target'} and the collection is
\* unchanged.
C9_RenameCollisionRejected ==
  [][\A p \in Callers :
       ( /\ UpdWriteReturns(p)
         /\ ~KeyUnchanged(store[arg[p].id], arg[p].data)
         /\ makeEntryId(Merge(store[arg[p].id], arg[p].data)) # arg[p].id
         /\ makeEntryId(Merge(store[arg[p].id], arg[p].data)) \in DOMAIN store ) =>
         /\ res'[p] = Failed("duplicate_target")
         /\ store' = store]_vars

\* C10: every step of a rename transaction, under any interleaving and on
\* backend failure, either returns {ok:true, id:newId} and replaces the old
\* document, which was stored, by a new one, which was not, holding the old
\* fields merged with newFields, or leaves the collection as it is and, if
\* it returns, returns ok:false.
C10_RenameAtomic ==
  [][\A p \in Callers :
       (pc[p] \in {"upd_tx_target", "upd_tx_old", "upd_tx_commit"}
          /\ pc'[p] # pc[p]) =>
         \/ /\ pc'[p] = "done"
            /\ res'[p] = OkId(makeEntryId(arg[p].data))
            /\ arg[p].id \in DOMAIN store
            /\ makeEntryId(arg[p].data) \notin DOMAIN store
            /\ store' =
                 [i \in (DOMAIN store \ {arg[p].id}) \cup {makeEntryId(arg[p].data)} |->
                    IF i = makeEntryId(arg[p].data)
                    THEN Merge(store[arg[p].id], arg[p].data)
                    ELSE store[i]]
         \/ /\ pc'[p] = "done" => ~res'[p].ok
            /\ store' = store]_vars

\* A key-changing updateEntry has renamed its entry while another call was
\* in flight.
C10_Witness ==
  \E p, q \in Callers :
    /\ Returned(p, "upd") /\ res[p] = OkId(makeEntryId(arg[p].data))
    /\ NaturalKey(store[res[p].id]) = NaturalKey(arg[p].data)
    /\ makeEntryId(arg[p].data) # arg[p].id
    /\ arg[p].id \notin DOMAIN store
    /\ q # p /\ pc[q] \notin {"idle", "done"}

\* The call of p takes the step that leaves the await at label.
Leaves(p, label) == pc[p] = label /\ pc'[p] # label

\* C11: a metadata operation whose backend write has failed returns
\* {ok:false, reason}: saveMeta does, and so do addCourse, deleteCourse and
\* ensureDefaults when the saveMeta they call fails; none of them returns
\* ok:true for a change that was not stored.
C11_WriteFailureReported ==
  \A p \in Callers :
    pc[p] = "done" /\ loc[p].out = "write failed"
      => res[p].ok = FALSE /\ "reason" \in DOMAIN res[p]

\* C12: loadMeta always returns a metadata object and writes nothing: the
\* stored fields when the document exists and the read succeeds, and the
\* default {courses:[], subjects:[], teachers:[]} when the document does not
\* exist or the read fails.
C12_LoadMetaTotal ==
  [][\A p \in Callers :
       Leaves(p, "meta_load") /\ arg[p].op = "loadMeta"
         => /\ pc'[p] = "done"
            /\ DOMAIN res'[p] = {"value"}
            /\ res'[p].value = IF meta.exists /\ loc'[p].out = "read"
                               THEN meta.data ELSE DefaultMeta
            /\ meta' = meta]_vars

\* loadMeta has returned the default although other metadata is stored,
\* because its read failed.
C12_Witness ==
  \E p \in Callers :
    /\ Returned(p, "loadMeta")
    /\ loc[p].out = "read failed"
    /\ meta.exists /\ meta.data # DefaultMeta
    /\ res[p].value = DefaultMeta

\* C13: a saveMeta(m) that returns ok:true leaves the document existing,
\* with every top-level field of m at the value given and every other
\* top-level field at the value it had.
C13_SaveMetaMerges ==
  [][\A p \in Callers :
       Leaves(p, "meta_save") /\ arg[p].op = "saveMeta" /\ res'[p] = Ok
         => /\ meta'.exists
            /\ DOMAIN meta'.data = DOMAIN meta.data \cup DOMAIN arg[p].data
            /\ \A f \in DOMAIN arg[p].data : meta'.data[f] = arg[p].data[f]
            /\ \A f \in DOMAIN meta.data \ DOMAIN arg[p].data :
                 meta'.data[f] = meta.data[f]]_vars

\* saveMeta has returned ok:true and a stored field that was not in its
\* argument is still there.
C13_Witness ==
  \E p \in Callers :
    /\ Returned(p, "saveMeta") /\ res[p] = Ok
    /\ "year" \in DOMAIN meta.data
    /\ "year" \notin DOMAIN arg[p].data
    /\ "subjects" \in DOMAIN arg[p].data

\* The call of p returns in this step.
Returns(p, op) == pc[p] # "done" /\ pc'[p] = "done" /\ arg[p].op = op

\* C14: an ensureDefaults that returns ok:true directly after another one
\* that returned ok:true leaves the metadata as the first one left it, and
\* writes nothing.
C14_EnsureDefaultsIdempotent ==
  \A p \in Callers :
    Returned(p, "ensureDefaults") /\ res[p] = Ok /\ "stored" \in DOMAIN prev.doc
      => meta = prev.doc.stored /\ loc[p].out # "written"

\* The course c has a timetable with six slots for each of mon..fri.
HasFullTimetable(c) ==
  /\ "timetable" \in DOMAIN c
  /\ \A d \in Days : d \in DOMAIN c.timetable /\ Len(c.timetable[d]) = SlotsPerDay

\* C15: when ensureDefaults returns ok:true, every stored course has a
\* timetable with six slots for each of mon..fri; and the course that an
\* addCourse stores has such a timetable, with every slot empty.
C15_TimetablesFull ==
  [][\A p \in Callers :
       /\ Returns(p, "ensureDefaults") /\ res'[p] = Ok
            => \A i \in DOMAIN CoursesOf(meta'.data) :
                 HasFullTimetable(CoursesOf(meta'.data)[i])
       /\ Returns(p, "addCourse") /\ meta' # meta
            => /\ CoursesOf(meta'.data) # <<>>
               /\ CoursesOf(meta'.data)[Len(CoursesOf(meta'.data))].timetable
                    = DefaultTimetable]_vars

\* C16: when ensureDefaults returns ok:true, the metadata document exists
\* and has the fields courses, subjects and teachers, also when it did not
\* exist or lacked them before.
C16_EnsureDefaultsCreates ==
  \A p \in Callers :
    Returned(p, "ensureDefaults") /\ res[p] = Ok
      => meta.exists /\ {"courses", "subjects", "teachers"} \subseteq DOMAIN meta.data

\* No two courses of the metadata m have the same id.
UniqueCourseIds(m) ==
  \A i, j \in DOMAIN CoursesOf(m) :
    CoursesOf(m)[i].id = CoursesOf(m)[j].id => i = j

\* C17: in a sequence of calls, addCourse(name) returns 'exists' and leaves
\* the metadata as it is when a stored course has the id made from name, and
\* otherwise stores the courses there were followed by one new course with
\* that id; and no two stored courses ever share an id.
C17_AddCourseUnique ==
  [][\A p \in Callers :
       /\ Returns(p, "addCourse")
            => IF HasCourse(meta.data, CourseId(arg[p].id))
               THEN res'[p] = Failed("exists") /\ meta' = meta
               ELSE /\ Len(CoursesOf(meta'.data)) = Len(CoursesOf(meta.data)) + 1
                    /\ SubSeq(CoursesOf(meta'.data), 1, Len(CoursesOf(meta.data)))
                         = CoursesOf(meta.data)
                    /\ CoursesOf(meta'.data)[Len(CoursesOf(meta'.data))].id
                         = CourseId(arg[p].id)
       /\ UniqueCourseIds(meta'.data)]_vars

\* C18: in a sequence of calls, a deleteCourse(id) that returns ok:true
\* leaves stored the courses there were without those of that id, in the
\* same order, and leaves every other stored field as it was.
C18_DeleteCourseFrame ==
  [][\A p \in Callers :
       Returns(p, "deleteCourse") /\ res'[p] = Ok
         => /\ CoursesOf(meta'.data)
                 = SelectSeq(CoursesOf(meta.data), LAMBDA c : c.id # arg[p].id)
            /\ \A f \in DOMAIN meta.data \ {"courses"} :
                 f \in DOMAIN meta'.data /\ meta'.data[f] = meta.data[f]]_vars

\* C19: deleteEntryById(id) never refuses: its write either fails in the
\* backend or removes the entry of that id, locked or not, stored or not,
\* leaving every other entry as it is, and returns ok:true; and an entry
\* whose locked flag is true loses the flag or disappears only by the write
\* of a toggleLockEntry or of a deleteEntryById on it.
C19_DeleteUnconditional ==
  [][/\ \A p \in Callers :
          Leaves(p, "del_write")
            => \/ res'[p] = Failed(BackendError) /\ store' = store
               \/ res'[p] = Ok /\ store' = DeleteDoc(store, arg[p].id)
     /\ \A id \in DOMAIN store :
          IsLocked(store[id]) /\ ~(id \in DOMAIN store' /\ IsLocked(store'[id]))
            => \E p \in Callers :
                 /\ pc[p] \in {"tog_write", "del_write"}
                 /\ arg[p].id = id
                 /\ pc'[p] = "done"]_vars

\* C20: called alone, addEntry of the natural-key-query variant returns the
\* 'locked' message when a stored entry has the given course, date and hour
\* and is locked, the 'already exists' message when one has them and is not
\* locked, and writes nothing in both cases; when none has them, it stores
\* exactly one new entry, which holds the given fields and a createdAt (the
\* caller's when given), and returns ok:true.  A failed round trip returns
\* the backend's error and writes nothing.
C20_AltAddOutcomes ==
  [][\A p \in Callers :
       /\ Leaves(p, "alt_query") /\ AltMatches(store, arg[p].data) # {}
            => /\ pc'[p] = "done"
               /\ store' = store
               /\ res'[p] \in
                    {Failed(BackendError),
                     IF \E i \in AltMatches(store, arg[p].data) :
                          IsLocked(store[AutoIds[i]])
                     THEN Failed(LockedMessage) ELSE Failed(ExistsMessage)}
       /\ Leaves(p, "alt_query") /\ AltMatches(store, arg[p].data) = {}
            => /\ store' = store
               /\ pc'[p] = "done" => res'[p] = Failed(BackendError)
       /\ Leaves(p, "alt_insert")
            => /\ AltMatches(store, arg[p].data) = {}
               /\ \/ res'[p] = Failed(BackendError) /\ store' = store
                  \/ /\ res'[p] = Ok
                     /\ \E id \in DOMAIN store' \ DOMAIN store :
                          /\ store' = SetDoc(store, id, store'[id])
                          /\ DOMAIN store'[id] = DOMAIN arg[p].data \cup {"createdAt"}
                          /\ \A f \in DOMAIN arg[p].data :
                               store'[id][f] = arg[p].data[f]]_vars

\* An addEntry has returned the 'locked' message for a stored locked entry,
\* after an addEntry that brought no createdAt stored one.
C20_Witness ==
  \E p \in Callers :
    /\ Returned(p, "altAdd")
    /\ res[p] = Failed(LockedMessage)
    /\ \E id \in DOMAIN store :
         IsLocked(store[id]) /\ store[id].createdAt = ServerTimestamp

\* C21: in the natural-key-query variant an addEntry that has found no entry
\* with its course, date and hour inserts without looking again: every
\* insert that the backend accepts stores one more entry with that key and
\* returns ok:true, whatever has been stored since the query; so two
\* concurrent calls for one key can both return ok:true and leave two
\* entries with the same natural key.
C21_AltInsertUnchecked ==
  [][\A p \in Callers :
       Leaves(p, "alt_insert") /\ res'[p] # Failed(BackendError)
         => /\ res'[p] = Ok
            /\ Cardinality(DOMAIN store') = Cardinality(DOMAIN store) + 1
            /\ \E id \in DOMAIN store' \ DOMAIN store :
                 NaturalKey(store'[id]) = NaturalKey(arg[p].data)]_vars

\* Two concurrent addEntry calls for one key have both returned ok:true, and
\* two entries with that key are stored.
C21_Witness ==
  /\ \A p \in Callers : Returned(p, "altAdd") /\ res[p] = Ok
  /\ NaturalKey(arg["c1"].data) = NaturalKey(arg["c2"].data)
  /\ Cardinality(DocsWithKey(NaturalKey(arg["c1"].data))) = Cardinality(Callers)

\* C22: loadEntries always returns a list and writes nothing: the entries
\* the ordered query selects when that query succeeds, every stored entry
\* with its id when the ordered query fails and the unordered scan succeeds,
\* and the empty list only when that scan has failed too.
C22_LoadEntriesFallsBack ==
  [][\A p \in Callers :
       Returns(p, "loadEntries") \/ Returns(p, "altLoadEntries")
         => /\ store' = store
            /\ DOMAIN res'[p] = {"value"}
            /\ IF loc'[p].out = "ordered"
               THEN res'[p].value = Listing(store, OrderedIds(store))
               ELSE IF loc'[p].out = "scan failed"
               THEN res'[p].value = {}
               ELSE res'[p].value = Listing(store, DOMAIN store)]_vars

\* C23: when the backend client is missing as the script loads, every call
\* of every facade operation ends with a raised error: none returns a
\* result, be it a success, a failure result or a default value.
C23_StubRaises ==
  \A p \in Callers :
    pc[p] = "done" /\ arg[p].data = [mode |-> "stub"]
      => DOMAIN res[p] = {"raised"}

\* C24: when two concurrent toggleLockEntry calls on one entry both return
\* ok:true, each of them has flipped the locked flag once, so the entry ends
\* with the flag it had: the write of the second flips the flag that the
\* first has left.
C24_TogglesNotLost ==
  [][\A p, q \in Callers :
       ( /\ p # q
         /\ Returned(q, "tog") /\ res[q] = Ok /\ arg[q].id = arg[p].id
         /\ Leaves(p, "tog_write") /\ res'[p] = Ok )
         => IsLocked(store'[arg[p].id]) = ~IsLocked(store[arg[p].id])]_vars

\* The id of the course that the addCourse or deleteCourse call a is about.
TargetId(a) == IF a.op = "addCourse" THEN CourseId(a.id) ELSE a.id

\* C25: when an addCourse runs concurrently with an addCourse or a
\* deleteCourse of another course and both return ok:true, the stored
\* metadata shows both: the write of the later call, made after a read that
\* did not fail, keeps the course the other call has added, or keeps absent
\* the course the other call has deleted.
C25_CourseMutationsNotLost ==
  [][\A p, q \in Callers :
       ( /\ p # q
         /\ pc[q] = "done" /\ res[q].ok /\ loc[q].out = "written"
         /\ Leaves(p, "meta_save") /\ loc[p].out = "read" /\ res'[p].ok
         /\ "addCourse" \in {arg[p].op, arg[q].op}
         /\ TargetId(arg[p]) # TargetId(arg[q]) )
         => HasCourse(meta'.data, TargetId(arg[q]))
              = HasCourse(meta.data, TargetId(arg[q]))]_vars

\* C26: a metadata read that fails inside addCourse, deleteCourse or
\* ensureDefaults loses nothing: the write that follows it leaves every
\* stored course stored, except the course a deleteCourse is to remove, and
\* leaves the stored subjects and teachers as they are.
C26_MaskedReadLosesNothing ==
  [][\A p \in Callers :
       Leaves(p, "meta_save") /\ loc[p].out = "read failed"
         => /\ \A i \in DOMAIN CoursesOf(meta.data) :
                 \/ arg[p].op = "deleteCourse"
                    /\ CoursesOf(meta.data)[i].id = arg[p].id
                 \/ \E j \in DOMAIN CoursesOf(meta'.data) :
                      CoursesOf(meta'.data)[j] = CoursesOf(meta.data)[i]
            /\ \A f \in {"subjects", "teachers"} \cap DOMAIN meta.data :
                 f \in DOMAIN meta'.data /\ meta'.data[f] = meta.data[f]]_vars

====
